---- MODULE Spec2Model ----
(***************************************************************************)
(* Model of samples/build-duration-logger/index.js: the BuildProcessor     *)
(* (pending queue, bounded admission, per-build handler map and dispatch)  *)
(* and createServerSideEventStream (open / error / complete callbacks and  *)
(* the retry budget) driven by an EventSource transport.                   *)
(*                                                                         *)
(* Every action is one callback of the single-threaded event loop, run to  *)
(* completion: a transport notification (open, error, named event) on one  *)
(* stream, or one expired setTimeout(..., 0).                              *)
(*                                                                         *)
(* The transport (the 'eventsource' package) is the environment.  It is    *)
(* modelled by the EventSource contract the code relies on: a stream       *)
(* starts CONNECTING, 'open' makes it OPEN, named events arrive only while *)
(* OPEN, an error either re-establishes the connection (CONNECTING) or     *)
(* fails it (CLOSED); a response status other than 200 -- in particular    *)
(* 204 -- fails the connection, and a CLOSED stream (closed by the         *)
(* transport or by stream.close()) dispatches nothing more.                *)
(***************************************************************************)
EXTENDS Integers, Sequences, FiniteSets, TLC

\* ------------------------------------------------------------- bounds
\* Number of builds the top-level stream may publish; a build is named by its
\* rank among the builds published (1 is the first).
NumBuilds == 3
\* Largest concurrency limit tried (maxConcurrentBuildsToProcess in 1..MaxLimit).
MaxLimit == 2
\* retry.maxRetries of a per-build stream (100 in the source), scaled down.
BuildMaxRetries == 2
\* retry.maxRetries of the top-level build stream (30 in the source), scaled down.
ListenerMaxRetries == 1
\* Total number of BuildEvent notifications delivered over all per-build streams.
MaxBuildEvents == 1
\* Longest list of handler classes a BuildProcessor is constructed with, where
\* the list is an input (the program itself passes BUILD_EVENT_HANDLERS).
MaxHandlerClasses == 3
\* Number of builds published in a burst, where the scheduler is run alone.
NumBuildsBurst == 4

\* ------------------------------------------------------------- constants
STATUS_COMPLETE == 204
\* JavaScript undefined / null, for numbers (retries, event.status).
Undefined == -1

Builds == 1..NumBuilds
Listener == 0
Conns == {Listener} \cup Builds
\* event.status of an error: 204, the status of a failed attempt to connect
\* (503 Service Unavailable), or none.
Statuses == {STATUS_COMPLETE, 503, Undefined}

\* ------------------------------------------------------------- state
VARIABLES
    eventHandlerClasses,           \* this.eventHandlerClasses
    maxConcurrentBuildsToProcess,  \* this.maxConcurrentBuildsToProcess
    pendingBuilds,                 \* this.pendingBuilds
    numBuildsInProcess,            \* this.numBuildsInProcess
    timers,                        \* setTimeout(..., 0) callbacks not yet run
    stream,                        \* per connection: the EventSource and `retries`
    buildEventHandlers,            \* per build: the map made by createBuildEventHandlers
    calls,                         \* per build: operations invoked from its stream's callbacks
    nBuildEvents,                  \* BuildEvent notifications delivered so far
    enqueued,                      \* history: builds in the order enqueue received them
    admitted,                      \* history: builds in the order processBuild received them
    watched,                       \* the connection whose notifications `hist` records
    hist                           \* history of the watched connection

vars ==
    <<eventHandlerClasses, maxConcurrentBuildsToProcess, pendingBuilds, numBuildsInProcess, timers, stream,
      buildEventHandlers, calls, nBuildEvents, enqueued, admitted, watched, hist>>

\* ------------------------------------------------------------- names
\* Property names and event types are strings; the code inspects their
\* characters (startsWith, substring), so they are sequences of characters.
str_on == <<"o", "n">>
str_constructor == <<"c", "o", "n", "s", "t", "r", "u", "c", "t", "o", "r">>
str_complete == <<"c", "o", "m", "p", "l", "e", "t", "e">>
str_BuildStarted == <<"B", "u", "i", "l", "d", "S", "t", "a", "r", "t", "e", "d">>
str_BuildFinished == <<"B", "u", "i", "l", "d", "F", "i", "n", "i", "s", "h", "e", "d">>
str_TaskFinished == <<"T", "a", "s", "k", "F", "i", "n", "i", "s", "h", "e", "d">>
str_TaskStarted == <<"T", "a", "s", "k", "S", "t", "a", "r", "t", "e", "d">>

\* String.prototype.startsWith
startsWith(s, prefix) ==
    /\ Len(s) >= Len(prefix)
    /\ SubSeq(s, 1, Len(prefix)) = prefix

\* String.prototype.substring(from), from counted from 0
substring(s, from) == SubSeq(s, from + 1, Len(s))

\* Event types a per-build stream can deliver: the three the handlers declare,
\* one nobody declares, and one that collides with the reserved 'complete' key.
EventTypes ==
    {str_BuildStarted, str_BuildFinished, str_TaskFinished, str_TaskStarted, str_complete}

\* ------------------------------------------------------------- handler classes
BUILD_EVENT_HANDLERS == <<"BuildDurationEventsHandler", "CacheableTaskCountHandler">>

\* The handler classes a BuildProcessor may be given: the two of the program
\* and a third of the same shape that shares an event type with each of them
\* and declares complete() as well.
HandlerClasses ==
    {"BuildDurationEventsHandler", "CacheableTaskCountHandler", "BuildSummaryHandler"}

\* Object.getOwnPropertyNames(handlerClass.prototype), in definition order.
getOwnPropertyNames(handlerClass) ==
    IF handlerClass = "BuildDurationEventsHandler"
    THEN <<str_constructor, str_on \o str_BuildStarted, str_on \o str_BuildFinished>>
    ELSE IF handlerClass = "CacheableTaskCountHandler"
    THEN <<str_constructor, str_on \o str_TaskFinished, str_complete>>
    ELSE <<str_constructor, str_on \o str_BuildStarted, str_on \o str_TaskFinished,
           str_complete>>

\* The lists of handler classes of length at most MaxHandlerClasses.
ClassLists == UNION {[1..n -> HandlerClasses] : n \in 0..MaxHandlerClasses}

RECURSIVE SeqFilterOn(_)
\* .filter(methodName => methodName.startsWith('on'))
SeqFilterOn(names) ==
    IF names = <<>> THEN <<>>
    ELSE IF startsWith(Head(names), str_on)
         THEN <<Head(names)>> \o SeqFilterOn(Tail(names))
         ELSE SeqFilterOn(Tail(names))

getHandledEventTypesForHandlerClass(handlerClass) ==
    LET methods == SeqFilterOn(getOwnPropertyNames(handlerClass))
    IN  [i \in 1..Len(methods) |-> substring(methods[i], 2)]

SeqToSet(s) == {s[i] : i \in 1..Len(s)}

RECURSIVE ConcatEventTypes(_)
ConcatEventTypes(classes) ==
    IF classes = <<>> THEN <<>>
    ELSE ConcatEventTypes(SubSeq(classes, 1, Len(classes) - 1))
            \o getHandledEventTypesForHandlerClass(classes[Len(classes)])

getAllHandledEventTypes == SeqToSet(ConcatEventTypes(eventHandlerClasses))

\* this.allHandledEventTypes, set by the constructor; eventHandlerClasses never
\* changes afterwards.
allHandledEventTypes == getAllHandledEventTypes

\* ------------------------------------------------------------- handler map
\* The empty object {}.
EmptyObject == [k \in {} |-> <<>>]

\* A mutant of addHandler: unshift() instead of push().
addHandlerUnshift(handlers, type, handler) ==
    IF type \in DOMAIN handlers
    THEN [handlers EXCEPT ![type] = <<handler>> \o @]
    ELSE handlers @@ (type :> <<handler>>)

\* handlers[type] ? handlers[type].push(handler) : handlers[type] = [handler]
addHandler(handlers, type, handler) ==
    IF type \in DOMAIN handlers
    THEN [handlers EXCEPT ![type] = Append(@, handler)]
    ELSE handlers @@ (type :> <<handler>>)

RECURSIVE addHandlerForEach(_, _, _)
addHandlerForEach(handlers, types, handler) ==
    IF types = <<>> THEN handlers
    ELSE addHandlerForEach(addHandler(handlers, Head(types), handler), Tail(types), handler)

\* new handlerClass.prototype.constructor(build): a fresh object, identified
\* by its build and by its rank n among the objects constructed for that
\* build's map.
NewHandler(handlerClass, build, n) == [cls |-> handlerClass, buildId |-> build, id |-> n]

\* One step of the reduce in createBuildEventHandlers, the n-th.
reduceStep(handlers, handlerClass, build, n) ==
    LET handler == NewHandler(handlerClass, build, n)
        withEvents ==
            addHandlerForEach(handlers, getHandledEventTypesForHandlerClass(handlerClass), handler)
    IN  IF str_complete \in SeqToSet(getOwnPropertyNames(handlerClass))
        THEN addHandler(withEvents, str_complete, handler)
        ELSE withEvents

RECURSIVE reduceHandlers(_, _)
reduceHandlers(classes, build) ==
    IF classes = <<>> THEN EmptyObject
    ELSE reduceStep(reduceHandlers(SubSeq(classes, 1, Len(classes) - 1), build),
                    classes[Len(classes)], build, Len(classes))

\* A mutant of createBuildEventHandlers: the 'complete' key is never filled.
createBuildEventHandlersNoComplete(build) ==
    LET full == reduceHandlers(eventHandlerClasses, build)
    IN  [k \in DOMAIN full \ {str_complete} |-> full[k]]

createBuildEventHandlers(build) == reduceHandlers(eventHandlerClasses, build)

\* retry.maxRetries of the configuration passed to createServerSideEventStream,
\* then `_configurationRetry.maxRetries || 0`.
configuredMaxRetries(c) == IF c = Listener THEN ListenerMaxRetries ELSE BuildMaxRetries

\* The `<` of JavaScript on numbers: false when the left operand is undefined (NaN).
JsLess(a, b) == a # Undefined /\ a < b

\* A connection before createServerSideEventStream has been called for it.
NoStream == [created |-> FALSE, readyState |-> "NONE", retries |-> Undefined]

\* createStream(): new EventSourcePolyfill(url); `let retries` is not initialised.
createStream == [created |-> TRUE, readyState |-> "CONNECTING", retries |-> Undefined]

\* History of a connection that has received no notification yet:
\*   kind, status, readyState  the last notification (readyState as the handler saw it)
\*   eventType, eventNo        of the last BuildEvent: its type and its rank among all
\*   did          what the last handler did, in order: the caller's callbacks and "close"
\*   prevRetries  `retries` before the last notification
\*   errs         status-bearing errors handled in the connecting state since the last open
\*   opened       an 'open' has been handled
\*   nComplete    invocations of _oncomplete
\*   exhausted    an error arrived in the connecting state with no retry left
\*   closeCalled  stream.close() has been called
\*   late         a callback was invoked by a notification that arrived after the
\*                connection was complete or out of retries
NoHist ==
    [kind |-> "none", status |-> Undefined, readyState |-> "NONE",
     eventType |-> <<>>, eventNo |-> 0, did |-> <<>>,
     prevRetries |-> Undefined, errs |-> 0, opened |-> FALSE, nComplete |-> 0,
     exhausted |-> FALSE, closeCalled |-> FALSE, late |-> FALSE]

\* The connection has reached closed-complete or closed-error.
Terminal(h) == h.nComplete > 0 \/ h.exhausted

\* The history after one notification on connection c.
Note(c, kind, status, readyState, did, errs) ==
    IF c # watched THEN hist
    ELSE [kind |-> kind, status |-> status, readyState |-> readyState,
          eventType |-> <<>>, eventNo |-> 0, did |-> did,
          prevRetries |-> stream[c].retries,
          errs |-> errs,
          opened |-> hist.opened \/ kind = "open",
          nComplete |-> hist.nComplete
                            + Cardinality({i \in 1..Len(did) : did[i] = "oncomplete"}),
          exhausted |-> hist.exhausted
                            \/ (/\ kind = "error"
                                /\ status # STATUS_COMPLETE
                                /\ readyState = "CONNECTING"
                                /\ ~(configuredMaxRetries(c) > 0
                                        /\ JsLess(stream[c].retries, configuredMaxRetries(c)))),
          closeCalled |-> hist.closeCalled \/ (\E i \in 1..Len(did) : did[i] = "close"),
          late |-> hist.late \/ (Terminal(hist) /\ did # <<>>)]

\* The history after a BuildEvent of type eventType on the stream of build b.
NoteEvent(b, eventType) ==
    IF b # watched THEN hist
    ELSE [Note(b, "event", Undefined, "OPEN", <<"eventHandler">>, hist.errs)
            EXCEPT !.eventType = eventType, !.eventNo = nBuildEvents + 1]

Init ==
    /\ eventHandlerClasses = BUILD_EVENT_HANDLERS
    /\ maxConcurrentBuildsToProcess \in 1..MaxLimit
    /\ pendingBuilds = <<>>
    /\ numBuildsInProcess = 0
    /\ timers = 0
    /\ stream = [c \in Conns |-> NoStream]
    /\ buildEventHandlers = [b \in Builds |-> EmptyObject]
    /\ calls = [b \in Builds |-> <<>>]
    /\ nBuildEvents = 0
    /\ enqueued = <<>>
    /\ admitted = <<>>
    /\ watched \in Conns
    /\ hist = NoHist

\* ------------------------------------------------------------- scheduler
\* processBuild(build): count it, build its handler map, open its stream.
processBuild(build) ==
    /\ numBuildsInProcess' = numBuildsInProcess + 1
    /\ buildEventHandlers' = [buildEventHandlers EXCEPT ![build] = createBuildEventHandlers(build)]
    /\ stream' = [stream EXCEPT ![build] = createStream]
    /\ admitted' = Append(admitted, build)

\* A mutant of processPendingBuilds: the concurrency limit is not tested.
processPendingBuildsNoLimit(pending) ==
    IF Len(pending) > 0
    THEN /\ processBuild(Head(pending))
         /\ pendingBuilds' = Tail(pending)
    ELSE /\ pendingBuilds' = pending
         /\ UNCHANGED <<numBuildsInProcess, buildEventHandlers, stream, admitted>>

\* A mutant of processPendingBuilds: pop() instead of shift().
processPendingBuildsPop(pending) ==
    IF Len(pending) > 0 /\ numBuildsInProcess < maxConcurrentBuildsToProcess
    THEN /\ processBuild(pending[Len(pending)])
         /\ pendingBuilds' = SubSeq(pending, 1, Len(pending) - 1)
    ELSE /\ pendingBuilds' = pending
         /\ UNCHANGED <<numBuildsInProcess, buildEventHandlers, stream, admitted>>

\* A mutant of processPendingBuilds: the limit is tested one too early.
processPendingBuildsStrict(pending) ==
    IF Len(pending) > 0 /\ numBuildsInProcess + 1 < maxConcurrentBuildsToProcess
    THEN /\ processBuild(Head(pending))
         /\ pendingBuilds' = Tail(pending)
    ELSE /\ pendingBuilds' = pending
         /\ UNCHANGED <<numBuildsInProcess, buildEventHandlers, stream, admitted>>

\* A mutant of processPendingBuilds: the head is read but not shifted off.
processPendingBuildsPeek(pending) ==
    IF Len(pending) > 0 /\ numBuildsInProcess < maxConcurrentBuildsToProcess
    THEN /\ processBuild(Head(pending))
         /\ pendingBuilds' = pending
    ELSE /\ pendingBuilds' = pending
         /\ UNCHANGED <<numBuildsInProcess, buildEventHandlers, stream, admitted>>

\* processPendingBuilds(), run on the queue `pending`.
processPendingBuilds(pending) ==
    IF Len(pending) > 0 /\ numBuildsInProcess < maxConcurrentBuildsToProcess
    THEN /\ processBuild(Head(pending))
         /\ pendingBuilds' = Tail(pending)
    ELSE /\ pendingBuilds' = pending
         /\ UNCHANGED <<numBuildsInProcess, buildEventHandlers, stream, admitted>>

\* A mutant of finishedProcessingBuild: the setTimeout is missing.
finishedProcessingBuildNoTimer ==
    /\ numBuildsInProcess' = numBuildsInProcess - 1
    /\ timers' = timers

\* finishedProcessingBuild()
finishedProcessingBuild ==
    /\ numBuildsInProcess' = numBuildsInProcess - 1
    /\ timers' = timers + 1

\* The entry finishedProcessingBuild leaves in the log of the build whose
\* stream completed.
ReleaseEntry == [cls |-> "BuildProcessor", buildId |-> 0, method |-> <<"finishedProcessingBuild">>]

\* ------------------------------------------------------------- stream callbacks
\* A mutant of stream.onopen: `retries` is left as it is.
stream_onopen_KeepRetries(retries) == retries

\* stream.onopen: retries = 0
stream_onopen(retries) == 0

\* A mutant of stream.onerror: every status-bearing error is taken for the end
\* of the stream.
stream_onerror_AnyStatusCompletes(retries, maxRetries, status, readyState) ==
    IF status # Undefined
    THEN [retries |-> retries, did |-> <<"oncomplete">>]
    ELSE [retries |-> retries, did |-> <<"onerror">>]

\* A mutant of stream.onerror: stream.close() is never called.
stream_onerror_NeverCloses(retries, maxRetries, status, readyState) ==
    IF status = STATUS_COMPLETE
    THEN [retries |-> retries, did |-> <<"oncomplete">>]
    ELSE IF readyState = "CONNECTING" /\ maxRetries > 0 /\ JsLess(retries, maxRetries)
                /\ status # Undefined
         THEN [retries |-> retries + 1, did |-> <<"onerror">>]
         ELSE [retries |-> retries, did |-> <<"onerror">>]

\* A mutant of stream.onerror: `retries <= _maxRetries`.
stream_onerror_OneMoreRetry(retries, maxRetries, status, readyState) ==
    IF status = STATUS_COMPLETE
    THEN [retries |-> retries, did |-> <<"oncomplete">>]
    ELSE IF readyState = "CONNECTING"
         THEN IF maxRetries > 0 /\ retries # Undefined /\ retries <= maxRetries
              THEN [retries |-> IF status # Undefined THEN retries + 1 ELSE retries,
                    did |-> <<"onerror">>]
              ELSE [retries |-> retries, did |-> <<"close", "onerror">>]
         ELSE [retries |-> retries, did |-> <<"onerror">>]

\* A mutant of stream.onerror: the handler returns after stream.close(), so
\* the error that closes the connection is not reported to _onerror.
stream_onerror_SilentClose(retries, maxRetries, status, readyState) ==
    IF status = STATUS_COMPLETE
    THEN [retries |-> retries, did |-> <<"oncomplete">>]
    ELSE IF readyState = "CONNECTING"
         THEN IF maxRetries > 0 /\ JsLess(retries, maxRetries)
              THEN [retries |-> IF status # Undefined THEN retries + 1 ELSE retries,
                    did |-> <<"onerror">>]
              ELSE [retries |-> retries, did |-> <<"close">>]
         ELSE [retries |-> retries, did |-> <<"onerror">>]

\* A mutant of stream.onerror: `retries++` without the test of event.status.
stream_onerror_CountsStatusless(retries, maxRetries, status, readyState) ==
    IF status = STATUS_COMPLETE
    THEN [retries |-> retries, did |-> <<"oncomplete">>]
    ELSE IF readyState = "CONNECTING"
         THEN IF maxRetries > 0 /\ JsLess(retries, maxRetries)
              THEN [retries |-> retries + 1, did |-> <<"onerror">>]
              ELSE [retries |-> retries, did |-> <<"close", "onerror">>]
         ELSE [retries |-> retries, did |-> <<"onerror">>]

\* stream.onerror, as a function of `retries`, _maxRetries, event.status and
\* stream.readyState: the new `retries` and what the handler did, in order
\* ("close" is stream.close(), the others are the caller's callbacks).
stream_onerror(retries, maxRetries, status, readyState) ==
    IF status = STATUS_COMPLETE
    THEN [retries |-> retries, did |-> <<"oncomplete">>]
    ELSE IF readyState = "CONNECTING"
         THEN IF maxRetries > 0 /\ JsLess(retries, maxRetries)
              THEN [retries |-> IF status # Undefined THEN retries + 1 ELSE retries,
                    did |-> <<"onerror">>]
              ELSE [retries |-> retries, did |-> <<"close", "onerror">>]
         ELSE [retries |-> retries, did |-> <<"onerror">>]

\* What the transport does with an error: it re-establishes the connection
\* (readyState CONNECTING, it will reconnect) or it fails the connection
\* (readyState CLOSED, it will not).
Outcomes == {"reconnect", "fail"}

\* stream.readyState as the error handler reads it.
readyStateSeen(outcome) == IF outcome = "fail" THEN "CLOSED" ELSE "CONNECTING"

\* A response with status 204 fails the connection: it is how a server ends
\* an event stream.
OutcomeAllowed(status, outcome) == status = STATUS_COMPLETE => outcome = "fail"

\* The stream of connection c after its error handler has run.
StreamAfterError(c, res, outcome) ==
    [stream[c] EXCEPT
        !.retries = res.retries,
        !.readyState = IF "close" \in SeqToSet(res.did) \/ outcome = "fail"
                       THEN "CLOSED" ELSE "CONNECTING"]

\* Status-bearing errors handled in the connecting state since the last open.
ErrsAfter(status, outcome) ==
    IF status \notin {STATUS_COMPLETE, Undefined} /\ readyStateSeen(outcome) = "CONNECTING"
    THEN hist.errs + 1 ELSE hist.errs

\* ------------------------------------------------------------- top-level stream
\* start(): createServerSideEventStream(buildStreamUrl, ...)
Start ==
    /\ ~stream[Listener].created
    /\ stream' = [stream EXCEPT ![Listener] = createStream]
    /\ UNCHANGED <<eventHandlerClasses, maxConcurrentBuildsToProcess, pendingBuilds, numBuildsInProcess, timers,
                   buildEventHandlers, calls, nBuildEvents, enqueued, admitted, watched, hist>>

\* 'open' on the top-level stream: retries = 0, then the configured onopen (a log line).
ListenerOpen ==
    /\ stream[Listener].readyState = "CONNECTING"
    /\ stream' = [stream EXCEPT ![Listener] =
                    [readyState |-> "OPEN", retries |-> stream_onopen(@.retries),
                     created |-> TRUE]]
    /\ hist' = Note(Listener, "open", Undefined, "OPEN", <<"onopen">>, 0)
    /\ UNCHANGED <<eventHandlerClasses, maxConcurrentBuildsToProcess, pendingBuilds, numBuildsInProcess, timers,
                   buildEventHandlers, calls, nBuildEvents, enqueued, admitted, watched>>

\* 'error' on the top-level stream: onerror is a log line, oncomplete is noop.
ListenerError(status, outcome) ==
    /\ stream[Listener].readyState \in {"CONNECTING", "OPEN"}
    /\ OutcomeAllowed(status, outcome)
    /\ LET res == stream_onerror(stream[Listener].retries, configuredMaxRetries(Listener),
                                 status, readyStateSeen(outcome))
       IN  /\ stream' = [stream EXCEPT ![Listener] = StreamAfterError(Listener, res, outcome)]
           /\ hist' = Note(Listener, "error", status, readyStateSeen(outcome), res.did,
                           ErrsAfter(status, outcome))
    /\ UNCHANGED <<eventHandlerClasses, maxConcurrentBuildsToProcess, pendingBuilds, numBuildsInProcess, timers,
                   buildEventHandlers, calls, nBuildEvents, enqueued, admitted, watched>>

\* 'Build' event on the top-level stream: enqueue(JSON.parse(event.data)),
\* that is pendingBuilds.push(build); processPendingBuilds().
Enqueue(build) ==
    /\ stream[Listener].readyState = "OPEN"
    /\ build = Len(enqueued) + 1
    /\ processPendingBuilds(Append(pendingBuilds, build))
    /\ enqueued' = Append(enqueued, build)
    /\ hist' = Note(Listener, "event", Undefined, "OPEN", <<"eventHandler">>, hist.errs)
    /\ UNCHANGED <<eventHandlerClasses, maxConcurrentBuildsToProcess, timers, calls, nBuildEvents, watched>>

\* The deferred () => this.processPendingBuilds() of finishedProcessingBuild.
TimerFire ==
    /\ timers > 0
    /\ timers' = timers - 1
    /\ processPendingBuilds(pendingBuilds)
    /\ UNCHANGED <<eventHandlerClasses, maxConcurrentBuildsToProcess, calls, nBuildEvents, enqueued, watched, hist>>

\* ------------------------------------------------------------- per-build stream
\* 'open' on a per-build stream: retries = 0; no onopen is configured (noop).
BuildStreamOpen(b) ==
    /\ stream[b].readyState = "CONNECTING"
    /\ stream' = [stream EXCEPT ![b] =
                    [readyState |-> "OPEN", retries |-> stream_onopen(@.retries),
                     created |-> TRUE]]
    /\ hist' = Note(b, "open", Undefined, "OPEN", <<"onopen">>, 0)
    /\ UNCHANGED <<eventHandlerClasses, maxConcurrentBuildsToProcess, pendingBuilds, numBuildsInProcess, timers,
                   buildEventHandlers, calls, nBuildEvents, enqueued, admitted, watched>>

\* handler[method](...) on every handler of the list, in order.
InvokeAll(handlers, method) ==
    [i \in 1..Len(handlers) |->
        [cls |-> handlers[i].cls, buildId |-> handlers[i].buildId, method |-> method]]

\* A mutant of the BuildEvent listener: the allHandledEventTypes test is
\* replaced by a look at the handler map alone.
buildEventHandlerAnyKey(b, eventType) ==
    IF eventType \in DOMAIN buildEventHandlers[b]
    THEN InvokeAll(buildEventHandlers[b][eventType], str_on \o eventType)
    ELSE <<>>

\* A mutant of the BuildEvent listener: the handler map is the one made by
\* the latest processBuild.
buildEventHandlerLatestMap(b, eventType) ==
    IF eventType \in allHandledEventTypes
    THEN InvokeAll(buildEventHandlers[admitted[Len(admitted)]][eventType], str_on \o eventType)
    ELSE <<>>

\* The BuildEvent listener of processBuild.
buildEventHandler(b, eventType) ==
    IF eventType \in allHandledEventTypes
    THEN InvokeAll(buildEventHandlers[b][eventType], str_on \o eventType)
    ELSE <<>>

\* 'BuildEvent' on a per-build stream.
BuildEvent(b, eventType) ==
    /\ stream[b].readyState = "OPEN"
    /\ nBuildEvents < MaxBuildEvents
    /\ nBuildEvents' = nBuildEvents + 1
    /\ calls' = [calls EXCEPT ![b] = @ \o buildEventHandler(b, eventType)]
    /\ hist' = NoteEvent(b, eventType)
    /\ UNCHANGED <<eventHandlerClasses, maxConcurrentBuildsToProcess, pendingBuilds, numBuildsInProcess, timers,
                   stream, buildEventHandlers, enqueued, admitted, watched>>

\* A mutant of the oncomplete of processBuild: finishedProcessingBuild() is
\* called after the complete() handlers.
oncompleteCallsReleaseLast(b) ==
    (IF str_complete \in DOMAIN buildEventHandlers[b]
     THEN InvokeAll(buildEventHandlers[b][str_complete], str_complete)
     ELSE <<>>) \o <<ReleaseEntry>>

\* The oncomplete of processBuild: finishedProcessingBuild(), then complete()
\* on every handler under the 'complete' key.
oncompleteCalls(b) ==
    <<ReleaseEntry>> \o
        (IF str_complete \in DOMAIN buildEventHandlers[b]
         THEN InvokeAll(buildEventHandlers[b][str_complete], str_complete)
         ELSE <<>>)

\* 'error' on a per-build stream: oncomplete is the closure above; no onerror
\* is configured, so _onerror is noop.
BuildStreamError(b, status, outcome) ==
    /\ stream[b].readyState \in {"CONNECTING", "OPEN"}
    /\ OutcomeAllowed(status, outcome)
    /\ LET res == stream_onerror(stream[b].retries, configuredMaxRetries(b),
                                 status, readyStateSeen(outcome))
       IN  /\ stream' = [stream EXCEPT ![b] = StreamAfterError(b, res, outcome)]
           /\ hist' = Note(b, "error", status, readyStateSeen(outcome), res.did,
                           ErrsAfter(status, outcome))
           /\ IF "oncomplete" \in SeqToSet(res.did)
              THEN /\ finishedProcessingBuild
                   /\ calls' = [calls EXCEPT ![b] = @ \o oncompleteCalls(b)]
              ELSE UNCHANGED <<numBuildsInProcess, timers, calls>>
    /\ UNCHANGED <<eventHandlerClasses, maxConcurrentBuildsToProcess, pendingBuilds, buildEventHandlers,
                   nBuildEvents, enqueued, admitted, watched>>

\* ------------------------------------------------------------- specification
Next ==
    \/ Start
    \/ ListenerOpen
    \/ \E status \in Statuses, outcome \in Outcomes : ListenerError(status, outcome)
    \/ \E build \in Builds : Enqueue(build)
    \/ TimerFire
    \/ \E b \in Builds : BuildStreamOpen(b)
    \/ \E b \in Builds, eventType \in EventTypes : BuildEvent(b, eventType)
    \/ \E b \in Builds, status \in Statuses, outcome \in Outcomes :
            BuildStreamError(b, status, outcome)

Spec == Init /\ [][Next]_vars

\* ------------------------------------------------------------- other environments
\* new BuildProcessor(url, limit, classes) for `builds` builds to come; the
\* top-level stream is the watched connection.
InitWith(classes, builds) ==
    /\ eventHandlerClasses = classes
    /\ maxConcurrentBuildsToProcess \in 1..MaxLimit
    /\ pendingBuilds = <<>>
    /\ numBuildsInProcess = 0
    /\ timers = 0
    /\ stream = [c \in {Listener} \cup builds |-> NoStream]
    /\ buildEventHandlers = [b \in builds |-> EmptyObject]
    /\ calls = [b \in builds |-> <<>>]
    /\ nBuildEvents = 0
    /\ enqueued = <<>>
    /\ admitted = <<>>
    /\ watched = Listener
    /\ hist = NoHist

\* A BuildProcessor constructed with any list of handler classes, over a
\* transport that never fails: every stream opens, delivers events and ends
\* with the 204.
InitClasses == \E classes \in ClassLists : InitWith(classes, Builds)

NextClasses ==
    \/ Start
    \/ ListenerOpen
    \/ \E build \in Builds : Enqueue(build)
    \/ TimerFire
    \/ \E b \in Builds : BuildStreamOpen(b)
    \/ \E b \in Builds, eventType \in EventTypes : BuildEvent(b, eventType)
    \/ \E b \in Builds : BuildStreamError(b, STATUS_COMPLETE, "fail")

SpecClasses == InitClasses /\ [][NextClasses]_vars

\* The program's BuildProcessor with a burst of NumBuildsBurst builds: the
\* top-level stream stays up, the per-build streams open, fail and complete
\* and deliver no events.
BurstBuilds == 1..NumBuildsBurst

InitBurst == InitWith(BUILD_EVENT_HANDLERS, BurstBuilds)

NextBurst ==
    \/ Start
    \/ ListenerOpen
    \/ \E build \in BurstBuilds : Enqueue(build)
    \/ TimerFire
    \/ \E b \in BurstBuilds : BuildStreamOpen(b)
    \/ \E b \in BurstBuilds, status \in Statuses, outcome \in Outcomes :
            BuildStreamError(b, status, outcome)

SpecBurst == InitBurst /\ [][NextBurst]_vars

\* ------------------------------------------------------------- observations
\* Number of entries of a log that are in the set `entries`.
CountEntries(log, entries) == Cardinality({i \in 1..Len(log) : log[i] \in entries})

\* Calls of finishedProcessingBuild made from the callbacks of build b's stream.
Released(b) == CountEntries(calls[b], {ReleaseEntry})

\* Calls of complete() on the instance of handlerClass created for build b,
\* made from the callbacks of build b's stream.
CompleteCalls(b, handlerClass) ==
    CountEntries(calls[b], {[cls |-> handlerClass, buildId |-> b, method |-> str_complete]})

\* The handler classes that declare complete().
DeclaresComplete(handlerClass) == str_complete \in SeqToSet(getOwnPropertyNames(handlerClass))

\* Builds admitted whose stream has not reported completion.
InProcess == {b \in SeqToSet(admitted) : Released(b) = 0}

\* ------------------------------------------------------------- claims

\* C1: for every limit N >= 1 and every interleaving of the callbacks, the
\* number of builds admitted and not yet completed, numBuildsInProcess, is at
\* most N.
C1_AdmittedNeverExceedsLimit ==
    /\ numBuildsInProcess <= maxConcurrentBuildsToProcess
    /\ numBuildsInProcess = Cardinality(InProcess)

\* C1 witness: a burst of more than N enqueues before any completion, with
\* the limit reached and a build left waiting.
C1_Witness ==
    /\ Len(enqueued) > maxConcurrentBuildsToProcess
    /\ \A b \in Builds : Released(b) = 0
    /\ numBuildsInProcess = maxConcurrentBuildsToProcess
    /\ pendingBuilds # <<>>

\* C2: builds are admitted in the order enqueue received them, and the
\* builds still pending are exactly the later ones, in order.
C2_AdmittedInFifoOrder ==
    /\ Len(admitted) <= Len(enqueued)
    /\ admitted = SubSeq(enqueued, 1, Len(admitted))
    /\ pendingBuilds = SubSeq(enqueued, Len(admitted) + 1, Len(enqueued))

\* C2 witness: a build has been admitted from a queue that held a later build
\* too, which is still pending.
C2_Witness ==
    /\ Len(admitted) >= 2
    /\ pendingBuilds # <<>>
    /\ timers = 0
    /\ maxConcurrentBuildsToProcess = 1

\* C3: complete() of an instance whose class declares it is invoked once per
\* clean-completion signal of its build's stream, at most once in all, never
\* without such a signal and never once the stream has run out of retries;
\* an instance whose class does not declare it is never sent complete().
C3_FinalizeOncePerCleanCompletion ==
    \A b \in Builds : \A i \in 1..Len(BUILD_EVENT_HANDLERS) :
        LET handlerClass == BUILD_EVENT_HANDLERS[i]
            n == CompleteCalls(b, handlerClass)
        IN  /\ n <= 1
            /\ ~DeclaresComplete(handlerClass) => n = 0
            /\ n = CountEntries(calls[b],
                                 {[cls |-> handlerClass, buildId |-> x, method |-> str_complete] :
                                    x \in Builds})
            /\ (b = watched /\ DeclaresComplete(handlerClass)) => n = hist.nComplete
            /\ (b = watched /\ hist.exhausted) => n = 0

\* C3 witness: the watched build's stream has completed cleanly and the
\* instance that declares complete() has received it.
C3_Witness ==
    /\ watched \in Builds
    /\ hist.nComplete = 1
    /\ CompleteCalls(watched, "CacheableTaskCountHandler") = 1

\* C4: when a per-build stream fails terminally (out of retries,
\* stream.close() called), the build's slot is released and no complete() is
\* invoked for it.
C4_TerminalFailureReleasesSlot ==
    (watched \in Builds /\ hist.exhausted /\ hist.closeCalled)
        => /\ Released(watched) = 1
           /\ \A i \in 1..Len(BUILD_EVENT_HANDLERS) :
                CompleteCalls(watched, BUILD_EVENT_HANDLERS[i]) = 0

\* C5: a stream's permanent failure does not affect other builds: when every
\* admitted build's stream has ended, by clean completion or by terminal
\* error, and no admission attempt is outstanding, no enqueued build is left
\* waiting (a build waiting in such a state is never admitted: nothing is
\* left that could release a slot).
C5_EveryEnqueuedBuildAdmitted ==
    (/\ timers = 0
     /\ \A b \in SeqToSet(admitted) :
            \/ Released(b) = 1
            \/ b = watched /\ hist.closeCalled /\ stream[b].readyState = "CLOSED")
        => pendingBuilds = <<>>

\* C6: a connection with maxRetries = M > 0 that has handled M
\* status-bearing errors in the connecting state since its last open (or
\* since it was created) has had stream.close() called.
C6_ClosedAfterMaxRetriesErrors ==
    hist.errs >= configuredMaxRetries(watched) => hist.closeCalled

\* C6 as amended: the connection has had stream.close() called once it has
\* handled M + 1 such errors.
C6_ClosedAfterMaxRetriesPlusOneErrors ==
    hist.errs >= configuredMaxRetries(watched) + 1 => hist.closeCalled

\* C6 witness: a connection that was open has handled M + 1 such errors and
\* is closed.
C6_Witness ==
    /\ hist.opened
    /\ hist.errs = configuredMaxRetries(watched) + 1
    /\ hist.closeCalled
    /\ stream[watched].readyState = "CLOSED"

\* C7: after an 'open' the retry counter is 0 and the connection is open and
\* not closed; a connection that has been open is closed for lack of retries
\* only after maxRetries status-bearing errors since its last open.
C7_OpenResetsRetries ==
    /\ hist.kind = "open"
            => /\ stream[watched].retries = 0
               /\ stream[watched].readyState = "OPEN"
               /\ hist.errs = 0
    /\ (hist.opened /\ hist.closeCalled)
            => /\ hist.errs >= configuredMaxRetries(watched)
               /\ stream[watched].retries = configuredMaxRetries(watched)

\* C7 witness: an 'open' that arrived when the counter stood at
\* maxRetries - 1 > 0.
C7_Witness ==
    /\ hist.kind = "open"
    /\ hist.prevRetries = configuredMaxRetries(watched) - 1
    /\ hist.prevRetries > 0
    /\ stream[watched].retries = 0

\* handlerClass declares an operation for event type t.
DeclaresEvent(handlerClass, t) == (str_on \o t) \in SeqToSet(getOwnPropertyNames(handlerClass))

RECURSIVE ExpectedCalls(_, _, _)
\* The operations an event of type t on build b's stream is to invoke: on<t>
\* of the instance of every class that declares it, in the order of classes.
ExpectedCalls(classes, b, t) ==
    IF classes = <<>> THEN <<>>
    ELSE (IF DeclaresEvent(Head(classes), t)
          THEN <<[cls |-> Head(classes), buildId |-> b, method |-> str_on \o t]>>
          ELSE <<>>) \o ExpectedCalls(Tail(classes), b, t)

\* C8: an event on a per-build stream whose type no handler class declares
\* invokes nothing and changes nothing of the observers or the scheduler;
\* an event whose type is declared invokes exactly the instances of the
\* classes that declare it.
C8_UndeclaredEventIgnored ==
    [][(/\ watched \in Builds
        /\ nBuildEvents' = nBuildEvents + 1
        /\ hist'.kind = "event"
        /\ hist'.eventNo = nBuildEvents')
            => /\ calls' = [calls EXCEPT ![watched] =
                                @ \o ExpectedCalls(BUILD_EVENT_HANDLERS, watched, hist'.eventType)]
               /\ UNCHANGED <<pendingBuilds, numBuildsInProcess, timers, stream,
                              buildEventHandlers, enqueued, admitted>>]_vars

\* C8 witness: the watched build's stream has delivered an event of a type
\* no class declares and its log is still empty.
C8_Witness ==
    /\ watched \in Builds
    /\ hist.kind = "event"
    /\ \A i \in 1..Len(BUILD_EVENT_HANDLERS) : ~DeclaresEvent(BUILD_EVENT_HANDLERS[i], hist.eventType)
    /\ calls[watched] = <<>>

\* C9: _oncomplete is invoked by an error with status 204 and by nothing
\* else, once for that notification and at most once per connection; the 204
\* does not touch the retry counter, is the connection's last notification
\* and leaves it closed.
C9_CompleteAtMostOnce ==
    /\ hist.nComplete <= 1
    /\ ("oncomplete" \in SeqToSet(hist.did)) <=> (hist.kind = "error" /\ hist.status = STATUS_COMPLETE)
    /\ hist.nComplete > 0
            => /\ hist.kind = "error" /\ hist.status = STATUS_COMPLETE
               /\ hist.did = <<"oncomplete">>
               /\ stream[watched].retries = hist.prevRetries
               /\ stream[watched].readyState = "CLOSED"

\* C9 witness: a connection that was open has received the 204.
C9_Witness ==
    /\ hist.opened
    /\ hist.nComplete = 1

\* C10: once a connection is complete (204 handled) or out of retries, it is
\* closed and no later notification invokes a callback of the caller; being
\* out of retries and stream.close() having been called go together.
C10_ClosedStatesAreTerminal ==
    /\ ~hist.late
    /\ Terminal(hist) => stream[watched].readyState = "CLOSED"
    /\ hist.exhausted <=> hist.closeCalled

\* C10 witness: a connection closed for lack of retries.
C10_Witness ==
    /\ hist.exhausted
    /\ hist.did = <<"close", "onerror">>
    /\ stream[watched].readyState = "CLOSED"

\* Number of times the handler of the last notification did `what`.
DidCount(h, what) == Cardinality({i \in 1..Len(h.did) : h.did[i] = what})

\* C11: every error notification other than the 204 invokes _onerror exactly
\* once, as the last thing the handler does -- when a retry follows, when the
\* handler closes the connection, and when the transport was not in the
\* connecting state; the 204 does not invoke it.
C11_OnErrorOncePerError ==
    hist.kind = "error"
        => /\ hist.status # STATUS_COMPLETE
                => /\ DidCount(hist, "onerror") = 1
                   /\ hist.did[Len(hist.did)] = "onerror"
           /\ hist.status = STATUS_COMPLETE => DidCount(hist, "onerror") = 0

\* C11 witness: the error that runs a connection out of retries has closed
\* it and has been reported to _onerror.
C11_Witness ==
    /\ hist.kind = "error"
    /\ hist.status = 503
    /\ hist.opened
    /\ hist.readyState = "CONNECTING"
    /\ DidCount(hist, "close") = 1
    /\ DidCount(hist, "onerror") = 1

\* C12: an error notification without a status leaves the retry counter
\* unchanged; a status-bearing error and a statusless one handled one after
\* the other in the connecting state (in either order) leave the counter
\* exactly one above its value before the two.
C12_StatuslessErrorNotCounted ==
    [][(hist' # hist /\ hist'.kind = "error")
        => /\ hist'.status = Undefined
                => /\ stream'[watched].retries = stream[watched].retries
                   /\ hist'.prevRetries = stream[watched].retries
           /\ (/\ hist.kind = "error"
               /\ hist.readyState = "CONNECTING"
               /\ hist'.readyState = "CONNECTING"
               /\ {hist.status, hist'.status} = {503, Undefined})
                => stream'[watched].retries = hist.prevRetries + 1]_vars

\* C12 witness: a statusless error handled in the connecting state right
\* after a counted one; the counter stands at 1 and the connection is alive.
C12_Witness ==
    /\ hist.kind = "error"
    /\ hist.status = Undefined
    /\ hist.readyState = "CONNECTING"
    /\ hist.prevRetries = 1
    /\ hist.errs = 1
    /\ stream[watched].retries = 1
    /\ stream[watched].readyState = "CONNECTING"

\* Status-bearing errors the connection had handled in the connecting state
\* since its last open, or since it was created, before the last notification.
ErrsBefore(h) ==
    IF h.status \notin {STATUS_COMPLETE, Undefined} /\ h.readyState = "CONNECTING"
    THEN h.errs - 1 ELSE h.errs

\* C13: with maxRetries > 0, an error other than the 204 received in the
\* connecting state while fewer than maxRetries errors have been counted
\* since the last open -- or since the connection was created, when it has
\* never been open -- does not close the connection: the transport goes on
\* reconnecting.
C13_TransientErrorKeepsConnection ==
    (/\ hist.kind = "error"
     /\ hist.status # STATUS_COMPLETE
     /\ hist.readyState = "CONNECTING"
     /\ configuredMaxRetries(watched) > 0
     /\ ErrsBefore(hist) < configuredMaxRetries(watched))
        => /\ DidCount(hist, "close") = 0
           /\ stream[watched].readyState = "CONNECTING"

\* The last n entries of a log.
Suffix(log, n) == SubSeq(log, Len(log) - n + 1, Len(log))

RECURSIVE ExpectedCompleteCalls(_, _)
\* The complete() calls the completion of build b's stream is to make: one on
\* the instance of every class that declares complete(), in the order of
\* classes.
ExpectedCompleteCalls(classes, b) ==
    IF classes = <<>> THEN <<>>
    ELSE (IF DeclaresComplete(Head(classes))
          THEN <<[cls |-> Head(classes), buildId |-> b, method |-> str_complete]>>
          ELSE <<>>) \o ExpectedCompleteCalls(Tail(classes), b)

\* C14: on clean completion of a build's stream complete() is invoked on
\* every instance under the 'complete' key, in registration order, and
\* finishedProcessingBuild is called only after the last of them.
C14_SlotFreedAfterLastFinalize ==
    \A b \in DOMAIN calls :
        Released(b) > 0
            => LET expected == ExpectedCompleteCalls(eventHandlerClasses, b)
               IN  /\ Len(calls[b]) >= Len(expected) + 1
                   /\ Suffix(calls[b], Len(expected) + 1) = expected \o <<ReleaseEntry>>

\* C14 as amended: finishedProcessingBuild is called first, and then
\* complete() on every instance under the 'complete' key, in registration
\* order.
C14_SlotFreedBeforeFirstFinalize ==
    \A b \in DOMAIN calls :
        Released(b) > 0
            => LET expected == ExpectedCompleteCalls(eventHandlerClasses, b)
               IN  /\ Len(calls[b]) >= Len(expected) + 1
                   /\ Suffix(calls[b], Len(expected) + 1) = <<ReleaseEntry>> \o expected

\* C14 witness: a build whose map holds instances of two different classes
\* under the 'complete' key has completed.
C14_Witness ==
    \E b \in DOMAIN calls :
        /\ Released(b) = 1
        /\ Len(eventHandlerClasses) = 2
        /\ eventHandlerClasses[1] # eventHandlerClasses[2]
        /\ Len(ExpectedCompleteCalls(eventHandlerClasses, b)) = 2

\* The step is an admission attempt: processPendingBuilds called by enqueue
\* or by an expired timer.
AdmissionAttempt == enqueued' # enqueued \/ timers' = timers - 1

\* C15: immediately after an admission attempt returns, the pending queue is
\* empty or numBuildsInProcess equals the limit.
C15_AttemptFillsFreeSlots ==
    [][AdmissionAttempt
        => \/ pendingBuilds' = <<>>
           \/ numBuildsInProcess' = maxConcurrentBuildsToProcess]_vars

\* C15 as amended: an admission attempt admits at most one build, the head of
\* the queue, and does so exactly when the queue is not empty and
\* numBuildsInProcess is below the limit; after it returns the queue is
\* empty, or numBuildsInProcess equals the limit, or a deferred attempt is
\* outstanding.
C15_AttemptAdmitsAtMostOne ==
    [][AdmissionAttempt
        => LET pending == IF enqueued' # enqueued
                          THEN Append(pendingBuilds, enqueued'[Len(enqueued')])
                          ELSE pendingBuilds
               admits == pending # <<>> /\ numBuildsInProcess < maxConcurrentBuildsToProcess
           IN  /\ admits => /\ admitted' = Append(admitted, Head(pending))
                            /\ pendingBuilds' = Tail(pending)
                            /\ numBuildsInProcess' = numBuildsInProcess + 1
               /\ ~admits => /\ admitted' = admitted
                             /\ pendingBuilds' = pending
                             /\ numBuildsInProcess' = numBuildsInProcess
               /\ \/ pendingBuilds' = <<>>
                  \/ numBuildsInProcess' = maxConcurrentBuildsToProcess
                  \/ timers' >= 1]_vars

\* C15 witness: two slots were free and two builds queued; one attempt has
\* run and one build is still queued next to a free slot.
C15_Witness ==
    /\ Len(admitted) = 3
    /\ pendingBuilds = <<4>>
    /\ numBuildsInProcess = 1
    /\ maxConcurrentBuildsToProcess = 2
    /\ timers = 1

\* The step is the completion of a per-build stream: its oncomplete has
\* called finishedProcessingBuild.
ReleaseStep == \E b \in DOMAIN calls : Released(b)' = Released(b) + 1

\* C16: the callback that calls finishedProcessingBuild lowers
\* numBuildsInProcess by one and schedules one deferred attempt; it leaves
\* the pending queue alone and admits nothing.  A build is admitted only in a
\* step of its own: an expired timer, or an enqueue.
C16_ReleaseDefersAdmission ==
    [][/\ ReleaseStep
            => /\ numBuildsInProcess' = numBuildsInProcess - 1
               /\ timers' = timers + 1
               /\ pendingBuilds' = pendingBuilds
               /\ admitted' = admitted
       /\ admitted' # admitted => (AdmissionAttempt /\ ~ReleaseStep)]_vars

\* C16 witness: a build has completed while another was queued; the slot is
\* free, the build still queued and the attempt still to run.
C16_Witness ==
    /\ \E b \in Builds : Released(b) = 1
    /\ pendingBuilds # <<>>
    /\ numBuildsInProcess < maxConcurrentBuildsToProcess
    /\ timers = 1

\* The ranks, in classes, of the classes that declare an operation for event
\* type t.
DeclaringEvent(classes, t) == {i \in 1..Len(classes) : DeclaresEvent(classes[i], t)}

\* The ranks, in classes, of the classes that declare complete().
DeclaringComplete(classes) == {i \in 1..Len(classes) : DeclaresComplete(classes[i])}

\* The list holds one instance for every rank of `ranks` and no other, each
\* once, in the order of the ranks; the instance of rank i is of class
\* classes[i] and of build b.
ListsExactly(list, ranks, classes, b) ==
    /\ Len(list) = Cardinality(ranks)
    /\ \A i \in 1..Len(list) :
            /\ list[i].id \in ranks
            /\ list[i].cls = classes[list[i].id]
            /\ list[i].buildId = b
    /\ \A i, j \in 1..Len(list) : i < j => list[i].id < list[j].id

C18_InstancesOwnedByOneBuild ==
    [][/\ \A b \in Builds : \A i \in 1..Len(calls'[b]) :
            calls'[b][i] = ReleaseEntry \/ calls'[b][i].buildId = b
       /\ \A b \in Builds : \A t \in DOMAIN buildEventHandlers'[b] :
            \A i \in 1..Len(buildEventHandlers'[b][t]) :
                buildEventHandlers'[b][t][i].buildId = b
       /\ calls' # calls
            => /\ buildEventHandlers' = buildEventHandlers
               /\ Cardinality({b \in Builds : calls'[b] # calls[b]}) = 1]_vars

\* C18 witness: two builds were in process together; the stream of the first
\* has delivered a handled event after the second was admitted, and the
\* stream of the second has completed.
C18_Witness ==
    /\ Len(admitted) >= 2
    /\ Len(calls[1]) = 1
    /\ calls[1][1].buildId = 1
    /\ Released(1) = 0
    /\ CompleteCalls(2, "CacheableTaskCountHandler") = 1

\* The smaller of two numbers.
Min(a, b) == IF a < b THEN a ELSE b

\* C19: between callbacks, the deferred attempts outstanding are at least as
\* many as the builds that could be admitted at once: the smaller of the
\* length of the queue and the number of free slots.
C19_NoBuildStranded ==
    timers >= Min(Len(pendingBuilds), maxConcurrentBuildsToProcess - numBuildsInProcess)

\* C19 witness: two slots free, a build queued and two attempts outstanding.
C19_Witness ==
    /\ Len(pendingBuilds) = 1
    /\ maxConcurrentBuildsToProcess - numBuildsInProcess = 2
    /\ timers = 2

\* A sequence without repetition.
NoDuplicates(seq) == \A i, j \in 1..Len(seq) : i # j => seq[i] # seq[j]

\* Builds whose stream's oncomplete has called finishedProcessingBuild.
ReleasedBuilds == {b \in Builds : Released(b) > 0}

RECURSIVE SumReleased(_)
\* Calls of finishedProcessingBuild over the builds of a set.
SumReleased(builds) ==
    IF builds = {} THEN 0
    ELSE LET b == CHOOSE x \in builds : TRUE
         IN  Released(b) + SumReleased(builds \ {b})

\* C20: numBuildsInProcess is never negative and is the number of builds
\* admitted less the number released; a build is admitted at most once and
\* released at most once, and only when admitted; every build enqueue
\* received is pending, or in process, or released, and only one of the three.
C20_BuildsAccountedFor ==
    /\ numBuildsInProcess >= 0
    /\ numBuildsInProcess = Len(admitted) - SumReleased(Builds)
    /\ NoDuplicates(enqueued) /\ NoDuplicates(admitted) /\ NoDuplicates(pendingBuilds)
    /\ \A b \in Builds : Released(b) <= 1
    /\ ReleasedBuilds \subseteq SeqToSet(admitted)
    /\ SeqToSet(enqueued) = SeqToSet(pendingBuilds) \cup SeqToSet(admitted)
    /\ SeqToSet(pendingBuilds) \cap SeqToSet(admitted) = {}
    /\ InProcess = SeqToSet(admitted) \ ReleasedBuilds
    /\ numBuildsInProcess = Cardinality(InProcess)

\* C20 witness: one build released, one in process and one pending.
C20_Witness ==
    /\ Cardinality(ReleasedBuilds) = 1
    /\ Cardinality(InProcess) = 1
    /\ Len(pendingBuilds) = 1

====
